---- MODULE Spec2Model ----
(***************************************************************************)
(* Model of the responsive auto-hide navigation controller (js/navbar.js), *)
(* the theme switch (js/theme.js) and the sidebar helpers of js/common.js. *)
(*                                                                         *)
(* The page is single threaded: every event handler, timer callback and    *)
(* animation-frame callback runs to completion, so each is one action.     *)
(* Time is abstracted: a pending timer may fire at any later step.         *)
(* The model starts when the script has run on a ready document, i.e.      *)
(* after init() (navbar.js:495-500).                                       *)
(***************************************************************************)
EXTENDS Integers, FiniteSets, Sequences, TLC

VARIABLES
    state,      \* the `state` object of navbar.js
    CONFIG,     \* the run-time mutable part of CONFIG (window.navbarConfig)
    elements,   \* which DOM elements cacheElements() found
    dom,        \* CSS classes, ARIA attributes and focus written by the controller
    win,        \* window.scrollY and window.innerWidth
    tasks,      \* callbacks queued in the browser that state holds no handle of
    inThrottle, \* the inThrottle flag of each throttle() closure
    listeners,  \* the listeners that cleanup() tries to remove
    theme       \* theme.js: the stored flag, its classes and its hide timer

navVars == <<state, CONFIG, elements, dom, win, tasks, inThrottle, listeners>>

vars == <<state, CONFIG, elements, dom, win, tasks, inThrottle, listeners, theme>>

(***************************************************************************)
(* Program constants (CONFIG, navbar.js:24-38) and the desktop boundary.   *)
(***************************************************************************)
scrollThreshold == 100
scrollDeltaMin == 10
topThreshold == 50
autoHideDelayDefault == 150
showDelayDefault == 0
DesktopMinWidth == 1025

(***************************************************************************)
(* Bounds of the model.                                                    *)
(***************************************************************************)
MaxShowTimers == 1      \* deferred-show timeouts pending at once
MaxFocusTimers == 1     \* deferred-focus timeouts pending at once
MaxPendingFrames == 2   \* animation-frame callbacks requested and not yet run
MaxHideTimers == 2      \* deferred-hide timeouts pending at once

\* Scroll offsets the page can be at: the top zone (0), scrollThreshold itself
\* (100, not beyond it), scrollDelta further (110, a delta of exactly 10 from
\* 100) and more than scrollDelta further again (125).
Offsets == {0, 100, 110, 125}
\* Viewport widths: a mobile layout and the narrowest desktop layout.
Widths == {768, 1025}
\* A timer handle kept in state, told apart by what clearTimeout would do with
\* it: "live" names a pending timeout; "null" stands for null and for the stale
\* handle of a timeout that has fired or was cleared, which every reader of the
\* handle (cancelHideTimer, handleScrollEnd, cleanup) treats like null.
Handles == {"null", "live"}

\* Values a script of the page gives CONFIG.showDelay through
\* window.navbarConfig: the default, and a delay longer than autoHideDelay.
ShowDelays == {0, 300}

\* The DOM the page offers.
ElementConfigs ==
    { [toggle |-> TRUE,  sidebar |-> TRUE,  overlay |-> TRUE,  navItems |-> 2],
      [toggle |-> FALSE, sidebar |-> TRUE,  overlay |-> TRUE,  navItems |-> 2],
      [toggle |-> FALSE, sidebar |-> FALSE, overlay |-> FALSE, navItems |-> 0] }

(***************************************************************************)
(* The whole program state as one record, so that the functions of the     *)
(* source become operators from worlds to worlds.                          *)
(***************************************************************************)
World ==
    [state |-> state, CONFIG |-> CONFIG, elements |-> elements, dom |-> dom,
     win |-> win, tasks |-> tasks, inThrottle |-> inThrottle,
     listeners |-> listeners]

\* The next state is world w0, provided its counters are within the bounds.
Commit(w0) ==
    \E w \in {w0} :
        /\ w.tasks.showTimers <= MaxShowTimers
        /\ w.tasks.focusTimers <= MaxFocusTimers
        /\ w.tasks.raf <= MaxPendingFrames
        /\ w.tasks.hideTimers <= MaxHideTimers
        /\ state' = w.state
        /\ CONFIG' = w.CONFIG
        /\ elements' = w.elements
        /\ dom' = w.dom
        /\ win' = w.win
        /\ tasks' = w.tasks
        /\ inThrottle' = w.inThrottle
        /\ listeners' = w.listeners
        /\ theme' = theme

\* init() went past its element check and registered the listeners.
Initialized(w) == w.elements.toggle \/ w.elements.sidebar

isDesktop(w) == w.win.innerWidth >= DesktopMinWidth

\* window.scrollTo(0, y): the document is scrollable over Offsets, y is clamped.
ScrollTo(w, y) ==
    LET lo == CHOOSE o \in Offsets : \A p \in Offsets : o <= p
        hi == CHOOSE o \in Offsets : \A p \in Offsets : o >= p
        c  == IF y < lo THEN lo ELSE IF y > hi THEN hi ELSE y
    IN  [w EXCEPT !.win.scrollY = c]

(***************************************************************************)
(* Dynamic shadow on scroll.                                               *)
(***************************************************************************)
setScrollingState(w, isScrolling) ==
    IF ~w.elements.toggle \/ w.state.prefersReducedMotion THEN w
    ELSE IF isScrolling /\ ~w.state.isScrolling
         THEN [w EXCEPT !.state.isScrolling = TRUE, !.dom.isScrollingClass = TRUE]
    ELSE IF ~isScrolling /\ w.state.isScrolling
         THEN [w EXCEPT !.state.isScrolling = FALSE, !.dom.isScrollingClass = FALSE]
    ELSE w

\* clearTimeout of the old handle, then a new timeout whose handle is kept.
handleScrollEnd(w) == [w EXCEPT !.state.scrollingTimer = "live"]

(***************************************************************************)
(* Showing and hiding the toggle.                                          *)
(***************************************************************************)
cancelHideTimer_Noop(w) == w

\* clearTimeout takes the timeout the handle names off the browser's queue
\* (tasks.hideTimers counts the hide timeouts on it).
cancelHideTimer(w) ==
    IF w.state.hideTimer # "null"
    THEN [w EXCEPT !.state.hideTimer = "null", !.tasks.hideTimers = @ - 1]
    ELSE w

showToggle_NoCancel(w, delay) ==
    IF ~w.elements.toggle THEN w
    ELSE IF delay > 0 /\ ~w.state.prefersReducedMotion
         THEN [w EXCEPT !.tasks.showTimers = @ + 1]
         ELSE [w EXCEPT !.dom.autoHidden = FALSE]

showToggle_NoReveal(w, delay) ==
    IF ~w.elements.toggle THEN w
    ELSE cancelHideTimer(w)

showToggle(w, delay) ==
    IF ~w.elements.toggle THEN w
    ELSE LET w1 == cancelHideTimer(w) IN
         IF delay > 0 /\ ~w1.state.prefersReducedMotion
         THEN [w1 EXCEPT !.tasks.showTimers = @ + 1]
         ELSE [w1 EXCEPT !.dom.autoHidden = FALSE]

hideToggleWithDelay(w) ==
    IF ~w.elements.toggle \/ w.state.menuOpen THEN w
    ELSE LET w1 == cancelHideTimer(w) IN
         IF w1.state.prefersReducedMotion \/ w1.CONFIG.autoHideDelay = 0
         THEN [w1 EXCEPT !.dom.autoHidden = TRUE]
         ELSE [w1 EXCEPT !.state.hideTimer = "live", !.tasks.hideTimers = @ + 1]

hideTimerCallback_KeepsVisible(w) ==
    [w EXCEPT !.tasks.hideTimers = @ - 1,
              !.state.hideTimer = IF w.tasks.hideTimers = 1 THEN "null" ELSE @]

\* The callback of the hide timeout. Timeouts of one delay run in the order
\* they were set, so the handle names the timeout that ran (and is stale from
\* then on) only when no other is pending.
hideTimerCallback(w) ==
    LET w1 == [w EXCEPT !.tasks.hideTimers = @ - 1,
                        !.state.hideTimer = IF w.tasks.hideTimers = 1
                                            THEN "null" ELSE @] IN
    IF ~w1.state.menuOpen
    THEN [w1 EXCEPT !.dom.autoHidden = TRUE]
    ELSE w1

(***************************************************************************)
(* The scroll evaluation.                                                  *)
(***************************************************************************)
handleScroll_AnyUpwardDelta(w) ==
    LET currentScrollY == w.win.scrollY IN
    IF isDesktop(w) \/ ~w.elements.toggle THEN w
    ELSE LET w1 == handleScrollEnd(setScrollingState(w, TRUE)) IN
         IF w1.state.menuOpen
         THEN [w1 EXCEPT !.state.lastScrollY = currentScrollY]
         ELSE LET scrollDelta == currentScrollY - w1.state.lastScrollY
                  w2 == IF currentScrollY < topThreshold
                        THEN showToggle(cancelHideTimer(w1), 0)
                        ELSE IF scrollDelta > scrollDeltaMin
                                /\ currentScrollY > scrollThreshold
                        THEN hideToggleWithDelay(w1)
                        ELSE IF scrollDelta < 0
                        THEN showToggle(cancelHideTimer(w1), w1.CONFIG.showDelay)
                        ELSE w1
              IN  [w2 EXCEPT !.state.lastScrollY = currentScrollY]

handleScroll_NoTopZone(w) ==
    LET currentScrollY == w.win.scrollY IN
    IF isDesktop(w) \/ ~w.elements.toggle THEN w
    ELSE LET w1 == handleScrollEnd(setScrollingState(w, TRUE)) IN
         IF w1.state.menuOpen
         THEN [w1 EXCEPT !.state.lastScrollY = currentScrollY]
         ELSE LET scrollDelta == currentScrollY - w1.state.lastScrollY
                  w2 == IF scrollDelta > scrollDeltaMin
                           /\ currentScrollY > scrollThreshold
                        THEN hideToggleWithDelay(w1)
                        ELSE IF scrollDelta < -scrollDeltaMin
                        THEN showToggle(cancelHideTimer(w1), w1.CONFIG.showDelay)
                        ELSE w1
              IN  [w2 EXCEPT !.state.lastScrollY = currentScrollY]

handleScroll(w) ==
    LET currentScrollY == w.win.scrollY IN
    IF isDesktop(w) \/ ~w.elements.toggle THEN w
    ELSE LET w1 == handleScrollEnd(setScrollingState(w, TRUE)) IN
         IF w1.state.menuOpen
         THEN [w1 EXCEPT !.state.lastScrollY = currentScrollY]
         ELSE LET scrollDelta == currentScrollY - w1.state.lastScrollY
                  w2 == IF currentScrollY < topThreshold
                        THEN showToggle(cancelHideTimer(w1), 0)
                        ELSE IF scrollDelta > scrollDeltaMin
                                /\ currentScrollY > scrollThreshold
                        THEN hideToggleWithDelay(w1)
                        ELSE IF scrollDelta < -scrollDeltaMin
                        THEN showToggle(cancelHideTimer(w1), w1.CONFIG.showDelay)
                        ELSE w1
              IN  [w2 EXCEPT !.state.lastScrollY = currentScrollY]

onScroll_NoTickingCheck(w) ==
    [w EXCEPT !.tasks.raf = @ + 1, !.state.ticking = TRUE]

\* onScroll: a frame is requested (tasks.raf counts the callbacks the browser
\* holds) unless state.ticking says one is pending.
onScroll(w) ==
    IF ~w.state.ticking
    THEN [w EXCEPT !.tasks.raf = @ + 1, !.state.ticking = TRUE]
    ELSE w

\* The callback given to requestAnimationFrame.
rafCallback(w) ==
    [handleScroll([w EXCEPT !.tasks.raf = @ - 1]) EXCEPT !.state.ticking = FALSE]

(***************************************************************************)
(* Menu toggle functions.                                                  *)
(***************************************************************************)
\* Focusable things the model tells apart: the toggle, the first and the last
\* navigation item, and anything else of the page.
FocusTargets == {"toggle", "item1", "item2", "other"}

openMenu(w) ==
    LET el == w.elements
        w1 == [w EXCEPT
                 !.state.menuOpen = TRUE,
                 !.state.scrollPosition = w.win.scrollY,
                 !.dom.ariaExpanded = IF el.toggle THEN "true" ELSE @,
                 !.dom.ariaHidden = IF el.sidebar THEN "false" ELSE @,
                 !.dom.sidebarOpen = IF el.sidebar THEN TRUE ELSE @,
                 !.dom.sidebarVisible = IF el.sidebar THEN TRUE ELSE @,
                 !.dom.overlayActive = IF el.overlay THEN TRUE ELSE @,
                 !.dom.navOpen = TRUE,
                 !.dom.icon = IF el.toggle THEN "close" ELSE @]
        w2 == showToggle(w1, 0)
    IN  [w2 EXCEPT !.tasks.focusTimers = @ + 1]

\* The callback of openMenu's timeout: elements.navItems[0]?.focus().
focusTimerCallback(w) ==
    LET w1 == [w EXCEPT !.tasks.focusTimers = @ - 1] IN
    IF w1.elements.navItems > 0
    THEN [w1 EXCEPT !.dom.activeElement = "item1"]
    ELSE w1

closeMenu_NoRestore(w) ==
    LET el == w.elements
        w1 == [w EXCEPT
                 !.state.menuOpen = FALSE,
                 !.dom.ariaExpanded = IF el.toggle THEN "false" ELSE @,
                 !.dom.ariaHidden = IF el.sidebar THEN "true" ELSE @,
                 !.dom.sidebarOpen = IF el.sidebar THEN FALSE ELSE @,
                 !.dom.sidebarVisible = IF el.sidebar THEN FALSE ELSE @,
                 !.dom.overlayActive = IF el.overlay THEN FALSE ELSE @,
                 !.dom.navOpen = FALSE,
                 !.dom.icon = IF el.toggle THEN "menu" ELSE @]
    IN  [w1 EXCEPT !.dom.activeElement = IF el.toggle THEN "toggle" ELSE @]

closeMenu(w) ==
    LET el == w.elements
        w1 == [w EXCEPT
                 !.state.menuOpen = FALSE,
                 !.dom.ariaExpanded = IF el.toggle THEN "false" ELSE @,
                 !.dom.ariaHidden = IF el.sidebar THEN "true" ELSE @,
                 !.dom.sidebarOpen = IF el.sidebar THEN FALSE ELSE @,
                 !.dom.sidebarVisible = IF el.sidebar THEN FALSE ELSE @,
                 !.dom.overlayActive = IF el.overlay THEN FALSE ELSE @,
                 !.dom.navOpen = FALSE,
                 !.dom.icon = IF el.toggle THEN "menu" ELSE @]
        w2 == ScrollTo(w1, w1.state.scrollPosition)
    IN  [w2 EXCEPT !.dom.activeElement = IF el.toggle THEN "toggle" ELSE @]

toggleMenu(w) ==
    IF isDesktop(w) THEN w
    ELSE IF w.state.menuOpen THEN closeMenu(w)
    ELSE openMenu(w)

(***************************************************************************)
(* Orientation change and resize.                                          *)
(***************************************************************************)
handleOrientationChange(w) ==
    LET w1 == IF w.state.menuOpen THEN closeMenu(w) ELSE w
    IN  [w1 EXCEPT !.state.lastScrollY = w1.win.scrollY]

resizeBody_KeepsNavOpen(w) ==
    LET el == w.elements IN
    IF isDesktop(w)
    THEN [w EXCEPT
            !.state.menuOpen = FALSE,
            !.dom.sidebarOpen = FALSE,
            !.dom.sidebarVisible = FALSE,
            !.dom.overlayActive = FALSE,
            !.dom.autoHidden = FALSE,
            !.dom.ariaExpanded = IF el.toggle THEN "false" ELSE @,
            !.dom.icon = IF el.toggle THEN "menu" ELSE @]
    ELSE IF ~w.state.menuOpen
         THEN [w EXCEPT
                 !.dom.sidebarOpen = FALSE,
                 !.dom.sidebarVisible = FALSE,
                 !.dom.ariaHidden = IF el.sidebar THEN "true" ELSE @]
         ELSE w

\* The function that handleResize throttles.
resizeBody(w) ==
    LET el == w.elements IN
    IF isDesktop(w)
    THEN [w EXCEPT
            !.state.menuOpen = FALSE,
            !.dom.sidebarOpen = FALSE,
            !.dom.sidebarVisible = FALSE,
            !.dom.overlayActive = FALSE,
            !.dom.navOpen = FALSE,
            !.dom.autoHidden = FALSE,
            !.dom.ariaExpanded = IF el.toggle THEN "false" ELSE @,
            !.dom.icon = IF el.toggle THEN "menu" ELSE @]
    ELSE IF ~w.state.menuOpen
         THEN [w EXCEPT
                 !.dom.sidebarOpen = FALSE,
                 !.dom.sidebarVisible = FALSE,
                 !.dom.ariaHidden = IF el.sidebar THEN "true" ELSE @]
         ELSE w

\* throttle(func, limit): the call is dropped while inThrottle, which a timeout
\* resets `limit` ms after the call that went through.
handleResize(w) ==
    IF ~w.inThrottle.resize
    THEN [resizeBody(w) EXCEPT !.inThrottle.resize = TRUE]
    ELSE w

throttledOnScroll(w) ==
    IF ~w.inThrottle.scroll
    THEN [onScroll(w) EXCEPT !.inThrottle.scroll = TRUE]
    ELSE w

(***************************************************************************)
(* Cleanup. The scroll listener was registered as throttle(onScroll, ..),  *)
(* so removeEventListener('scroll', onScroll) matches no listener.         *)
(***************************************************************************)
cleanup(w) ==
    LET w1 == cancelHideTimer(w)
        w2 == IF w1.state.scrollingTimer = "live"
              THEN [w1 EXCEPT !.state.scrollingTimer = "null"]
              ELSE w1
    IN  [w2 EXCEPT !.listeners.resize = FALSE, !.listeners.keydown = FALSE]

(***************************************************************************)
(* Keyboard navigation.                                                    *)
(***************************************************************************)
\* focusableItems = [toggle, ...navItems]: its first and last entry ("none"
\* for a null entry, which document.activeElement never equals).
firstItem(w) == IF w.elements.toggle THEN "toggle" ELSE "none"

lastItem(w) ==
    IF w.elements.navItems > 0 THEN "item2" ELSE firstItem(w)

handleKeydown_NoTabTrap(w, key, shiftKey) ==
    IF key = "Escape" /\ w.state.menuOpen
    THEN [world |-> closeMenu(w), prevented |-> FALSE]
    ELSE [world |-> w, prevented |-> FALSE]

\* handleKeydown; prevented tells whether e.preventDefault() was called.
handleKeydown(w, key, shiftKey) ==
    IF key = "Escape" /\ w.state.menuOpen
    THEN [world |-> closeMenu(w), prevented |-> FALSE]
    ELSE IF key = "Tab" /\ w.state.menuOpen
    THEN IF shiftKey /\ w.dom.activeElement = firstItem(w)
         THEN [world |-> IF lastItem(w) # "none"
                         THEN [w EXCEPT !.dom.activeElement = lastItem(w)]
                         ELSE w,
               prevented |-> TRUE]
         ELSE IF ~shiftKey /\ w.dom.activeElement = lastItem(w)
         THEN [world |-> IF firstItem(w) # "none"
                         THEN [w EXCEPT !.dom.activeElement = firstItem(w)]
                         ELSE w,
               prevented |-> TRUE]
         ELSE [world |-> w, prevented |-> FALSE]
    ELSE [world |-> w, prevented |-> FALSE]

\* The tab order of the page's markup, as the keyboard trap takes it to be:
\* the toggle, then the navigation items, with nothing focusable in between;
\* "other" stands for the rest of the page, after the last item and (going
\* round) before the toggle.
tabOrder(w) ==
    (IF w.elements.toggle THEN <<"toggle">> ELSE <<>>)
    \o (IF w.elements.navItems > 0 THEN <<"item1", "item2">> ELSE <<>>)
    \o <<"other">>

\* What the browser does with a Tab (Shift+Tab) keydown that no handler
\* prevented: the focus moves to the next (previous) element of the tab order.
defaultTabMove(w, shiftKey) ==
    LET order == tabOrder(w)
        n == Len(order)
        i == CHOOSE k \in 1..n : order[k] = w.dom.activeElement
        j == IF shiftKey THEN (IF i = 1 THEN n ELSE i - 1)
                         ELSE (IF i = n THEN 1 ELSE i + 1)
    IN  [w EXCEPT !.dom.activeElement = order[j]]

\* A Tab or Shift+Tab keydown: the document's keydown listener, while
\* registered, then the browser's default unless it was prevented.
tabKeydown(w, shiftKey) ==
    LET r == IF w.listeners.keydown
             THEN handleKeydown(w, "Tab", shiftKey)
             ELSE [world |-> w, prevented |-> FALSE]
    IN  IF r.prevented THEN r.world ELSE defaultTabMove(r.world, shiftKey)

(***************************************************************************)
(* common.js on the same page. Its document click listener runs for every  *)
(* click, after the listeners navbar.js put on the click's target.         *)
(***************************************************************************)
OutsideClickMaxWidth == 768

\* Where a click can land: on the toggle or in it, in the sidebar, on the
\* overlay, or on anything else of the page.
ClickTargets == {"toggle", "sidebar", "overlay", "page"}

\* The listeners of navbar.js's init on the target of a click.
targetClickListeners(w, target) ==
    CASE target = "toggle" /\ w.elements.toggle -> toggleMenu(w)
      [] target = "overlay" /\ Initialized(w) /\ w.elements.overlay -> closeMenu(w)
      [] OTHER -> w

\* common.js's listener: 'open' and 'active' are removed, nothing else.
documentClick(w, target) ==
    IF /\ w.win.innerWidth <= OutsideClickMaxWidth
       /\ w.elements.sidebar /\ w.elements.toggle /\ w.elements.overlay
       /\ target \notin {"sidebar", "toggle"}
       /\ w.dom.sidebarOpen
    THEN [w EXCEPT !.dom.sidebarOpen = FALSE, !.dom.overlayActive = FALSE]
    ELSE w

(***************************************************************************)
(* theme.js. The theme record holds the stored flag (localStorage item     *)
(* 'german-theme'), body's 'theme-dark', the floating button's             *)
(* 'theme-float-btn--hidden', the hotspot's 'theme-hotspot--active', the   *)
(* hideTimer handle with the count of timeouts it can name, and whether    *)
(* the pointer is over the floating button. Operators map theme records to *)
(* theme records; the button and the hotspot exist from initialization on. *)
(***************************************************************************)
StoredThemes == {"unset", "light", "dark"}

getDark(t) == t.stored = "dark"

updateHotspotVisibility(t) ==
    [t EXCEPT !.hotspotActive = getDark(t) /\ t.btnHidden]

apply(t, dark) ==
    updateHotspotVisibility([t EXCEPT !.bodyDark = dark, !.btnHidden = dark])

toggle(t) ==
    LET dark == ~t.bodyDark IN
    apply([t EXCEPT !.stored = IF dark THEN "dark" ELSE "light"], dark)

hideBtn_OrigOnly(t) == [t EXCEPT !.btnHidden = TRUE]

\* hideBtn and showBtn as reassigned at theme.js:99-109.
hideBtn(t) == updateHotspotVisibility([t EXCEPT !.btnHidden = TRUE])

cancelAutoHide(t) ==
    IF t.hideTimer # "null"
    THEN [t EXCEPT !.hideTimer = "null", !.timers = @ - 1]
    ELSE t

\* clearTimeout of the old handle (left stale, which reads as null, when the
\* theme is not dark), then a new timeout.
scheduleAutoHide(t) ==
    LET t1 == cancelAutoHide(t) IN
    IF ~getDark(t1) THEN t1
    ELSE [t1 EXCEPT !.hideTimer = "live", !.timers = @ + 1]

showBtn(t) ==
    LET t1 == [t EXCEPT !.btnHidden = FALSE]
        t2 == IF getDark(t1) THEN scheduleAutoHide(t1) ELSE t1
    IN  updateHotspotVisibility(t2)

\* btn.onclick of injectFloatingBtn.
btnOnclick(t) ==
    LET t1 == toggle(cancelAutoHide(t)) IN
    IF getDark(t1) THEN hideBtn(t1) ELSE t1

onHotspotClick(t) == IF ~getDark(t) THEN t ELSE showBtn(t)

btnMouseenter(t) == cancelAutoHide([t EXCEPT !.hovered = TRUE])

btnMouseleave(t) ==
    LET t1 == [t EXCEPT !.hovered = FALSE] IN
    IF getDark(t1) THEN scheduleAutoHide(t1) ELSE t1

\* The callback of the auto-hide timeout; the handle names the timeout that
\* ran (and is stale from then on) when no other is pending.
themeTimerCallback(t) ==
    hideBtn([t EXCEPT !.timers = @ - 1,
                      !.hideTimer = IF t.timers = 1 THEN "null" ELSE @])

\* The initialization at theme.js:110-124 on a ready document: apply() runs
\* before injectFloatingBtn() has created the button, so it sets only the
\* body class; the button is created without 'theme-float-btn--hidden'.
themeInit(stored) ==
    updateHotspotVisibility(
        [stored |-> stored,
         bodyDark |-> stored = "dark",
         btnHidden |-> FALSE,
         hideTimer |-> "null",
         timers |-> 0,
         hotspotActive |-> FALSE,
         hovered |-> FALSE])

(***************************************************************************)
(* Initialization: the state object as declared, then init().              *)
(***************************************************************************)
init(el, width, scrollY, reducedMotion) ==
    LET ready == el.toggle \/ el.sidebar IN
    [state |-> [lastScrollY |-> IF ready THEN scrollY ELSE 0,
                ticking |-> FALSE,
                menuOpen |-> FALSE,
                scrollPosition |-> 0,
                isScrolling |-> FALSE,
                scrollingTimer |-> "null",
                hideTimer |-> "null",
                prefersReducedMotion |-> ready /\ reducedMotion],
     CONFIG |-> [autoHideDelay |-> autoHideDelayDefault,
                 showDelay |-> showDelayDefault],
     elements |-> el,
     dom |-> [autoHidden |-> FALSE,
              isScrollingClass |-> FALSE,
              ariaExpanded |-> IF ready /\ el.toggle THEN "false" ELSE "unset",
              ariaHidden |-> IF ready /\ el.sidebar
                             THEN (IF width >= DesktopMinWidth THEN "false" ELSE "true")
                             ELSE "unset",
              sidebarOpen |-> FALSE,
              sidebarVisible |-> FALSE,
              overlayActive |-> FALSE,
              navOpen |-> FALSE,
              icon |-> IF ready /\ el.toggle THEN "menu" ELSE "unset",
              activeElement |-> "other"],
     win |-> [scrollY |-> scrollY, innerWidth |-> width],
     tasks |-> [raf |-> 0, hideTimers |-> 0, showTimers |-> 0, focusTimers |-> 0],
     inThrottle |-> [scroll |-> FALSE, resize |-> FALSE],
     listeners |-> [scroll |-> ready, resize |-> ready, keydown |-> ready]]

\* Offsets a page can be loaded at (a reload restores the scroll position).
InitOffsets == {0, 125}

Init ==
    \E el \in ElementConfigs, width \in Widths, y \in InitOffsets,
       reducedMotion \in BOOLEAN :
        LET w == init(el, width, y, reducedMotion) IN
        /\ state = w.state
        /\ CONFIG = w.CONFIG
        /\ elements = w.elements
        /\ dom = w.dom
        /\ win = w.win
        /\ tasks = w.tasks
        /\ inThrottle = w.inThrottle
        /\ listeners = w.listeners
        /\ theme = themeInit("unset")

\* A page with all elements at mobile width, the theme flag as a visit of
\* this or another page of the site left it.
InitTheme ==
    \E stored \in StoredThemes :
        LET w == init([toggle |-> TRUE, sidebar |-> TRUE, overlay |-> TRUE,
                       navItems |-> 2], 768, 0, FALSE) IN
        /\ state = w.state
        /\ CONFIG = w.CONFIG
        /\ elements = w.elements
        /\ dom = w.dom
        /\ win = w.win
        /\ tasks = w.tasks
        /\ inThrottle = w.inThrottle
        /\ listeners = w.listeners
        /\ theme = themeInit(stored)

(***************************************************************************)
(* Actions: one per event the browser delivers or callback it runs.        *)
(***************************************************************************)
\* The user scrolls the page to y; the scroll event reaches the throttled
\* onScroll when init() registered it.
ScrollEvent ==
    \E y \in Offsets \ {win.scrollY} :
        LET w1 == [World EXCEPT !.win.scrollY = y] IN
        Commit(IF w1.listeners.scroll THEN throttledOnScroll(w1) ELSE w1)

\* The timeout of the scroll throttle resets its flag.
ScrollThrottleReset ==
    /\ inThrottle.scroll
    /\ Commit([World EXCEPT !.inThrottle.scroll = FALSE])

\* The requested animation frame runs.
AnimationFrame ==
    /\ tasks.raf > 0
    /\ Commit(rafCallback(World))

HideTimerFires ==
    /\ tasks.hideTimers > 0
    /\ Commit(hideTimerCallback(World))

\* The scroll-end timeout runs setScrollingState(false).
ScrollEndTimerFires ==
    /\ state.scrollingTimer = "live"
    /\ Commit(setScrollingState([World EXCEPT !.state.scrollingTimer = "null"], FALSE))

\* A deferred show runs toggle.classList.remove('auto-hidden'). One is pending
\* only after CONFIG.showDelay was raised above its default 0.
ShowTimerFires ==
    /\ tasks.showTimers > 0
    /\ Commit([World EXCEPT !.tasks.showTimers = @ - 1, !.dom.autoHidden = FALSE])

FocusTimerFires ==
    /\ tasks.focusTimers > 0
    /\ Commit(focusTimerCallback(World))

\* A click on the toggle button (listener of init).
ToggleClick ==
    /\ elements.toggle
    /\ Commit(toggleMenu(World))

\* A call of the exported window.toggleSidebar.
ToggleSidebarCall ==
    /\ TRUE
    /\ Commit(toggleMenu(World))

\* A click on the overlay (listener of init).
OverlayClick ==
    /\ Initialized(World) /\ elements.overlay
    /\ Commit(closeMenu(World))

EscapeKey ==
    /\ listeners.keydown
    /\ Commit(handleKeydown(World, "Escape", FALSE).world)

OrientationChange ==
    /\ Initialized(World)
    /\ Commit(handleOrientationChange(World))

\* The viewport gets another width; the resize event reaches handleResize
\* while it is registered.
ResizeEvent ==
    \E width \in Widths \ {win.innerWidth} :
        LET w1 == [World EXCEPT !.win.innerWidth = width] IN
        Commit(IF w1.listeners.resize THEN handleResize(w1) ELSE w1)

\* The timeout of the resize throttle resets its flag.
ResizeThrottleReset ==
    /\ inThrottle.resize
    /\ Commit([World EXCEPT !.inThrottle.resize = FALSE])

\* The reduced-motion media query changes (listener of detectReducedMotion).
ReducedMotionChange ==
    /\ Initialized(World)
    /\ Commit([World EXCEPT !.state.prefersReducedMotion = ~@])

\* The page becomes visible again.
VisibilityChange ==
    /\ Initialized(World)
    /\ Commit(setScrollingState([World EXCEPT !.state.lastScrollY = win.scrollY], FALSE))

TabKey ==
    /\ TRUE
    /\ Commit(tabKeydown(World, FALSE))

ShiftTabKey ==
    /\ TRUE
    /\ Commit(tabKeydown(World, TRUE))

\* A script of the page assigns window.navbarConfig.showDelay.
SetShowDelay ==
    \E d \in ShowDelays \ {CONFIG.showDelay} :
        Commit([World EXCEPT !.CONFIG.showDelay = d])

\* A click somewhere on a page that loads navbar.js and common.js: the
\* target's listeners, then common.js's document listener.
PageClick ==
    \E target \in ClickTargets :
        /\ target = "toggle" => elements.toggle
        /\ target = "sidebar" => elements.sidebar
        /\ target = "overlay" => elements.overlay
        /\ Commit(documentClick(targetClickListeners(World, target), target))

\* The next theme record is t; the navigation controller is not involved.
ThemeCommit(t) ==
    /\ theme' = t
    /\ UNCHANGED navVars

\* A click on the floating theme button, while it is shown.
FloatBtnClick ==
    /\ ~theme.btnHidden
    /\ ThemeCommit(btnOnclick(theme))

\* A click on the sidebar's #theme-toggle, or a call of window.toggleTheme.
ToggleThemeCall ==
    /\ TRUE
    /\ ThemeCommit(toggle(theme))

HotspotClick ==
    /\ TRUE
    /\ ThemeCommit(onHotspotClick(theme))

BtnMouseEnter ==
    /\ ~theme.hovered /\ ~theme.btnHidden
    /\ ThemeCommit(btnMouseenter(theme))

BtnMouseLeave ==
    /\ theme.hovered
    /\ ThemeCommit(btnMouseleave(theme))

ThemeTimerFires ==
    /\ theme.timers > 0
    /\ ThemeCommit(themeTimerCallback(theme))

\* A call of the exported window.cleanupNavigation.
CleanupCall ==
    /\ TRUE
    /\ Commit(cleanup(World))

Next ==
    \/ ScrollEvent
    \/ ScrollThrottleReset
    \/ AnimationFrame
    \/ HideTimerFires
    \/ ScrollEndTimerFires
    \/ FocusTimerFires
    \/ ToggleClick
    \/ ToggleSidebarCall
    \/ OverlayClick
    \/ EscapeKey
    \/ OrientationChange
    \/ ResizeEvent
    \/ ResizeThrottleReset
    \/ ReducedMotionChange
    \/ VisibilityChange

\* The life of the page up to its teardown, CONFIG at its defaults.
Spec == Init /\ [][Next]_vars

\* The life of the page with calls of the exported cleanup in it.
NextTeardown ==
    \/ Next
    \/ CleanupCall

SpecTeardown == Init /\ [][NextTeardown]_vars

\* The menu under keyboard and pointer operation, the page not scrolling.
NextKeys ==
    \/ TabKey
    \/ ShiftTabKey
    \/ EscapeKey
    \/ ToggleClick
    \/ ToggleSidebarCall
    \/ OverlayClick
    \/ FocusTimerFires
    \/ OrientationChange
    \/ ResizeEvent
    \/ ResizeThrottleReset

SpecKeys == Init /\ [][NextKeys]_vars

\* The menu on a page that loads common.js too, navbar.js last (so that
\* window.toggleSidebar is toggleMenu).
NextCommon ==
    \/ PageClick
    \/ ToggleSidebarCall
    \/ EscapeKey
    \/ FocusTimerFires
    \/ OrientationChange
    \/ ResizeEvent
    \/ ResizeThrottleReset

SpecCommon == Init /\ [][NextCommon]_vars

\* The theme controls, on a page whose menu is opened and closed.
NextTheme ==
    \/ FloatBtnClick
    \/ ToggleThemeCall
    \/ HotspotClick
    \/ BtnMouseEnter
    \/ BtnMouseLeave
    \/ ThemeTimerFires
    \/ ToggleClick
    \/ FocusTimerFires

SpecTheme == InitTheme /\ [][NextTheme]_vars

\* The scrolling page with showDelay set at run time.
NextConfig ==
    \/ SetShowDelay
    \/ ScrollEvent
    \/ ScrollThrottleReset
    \/ AnimationFrame
    \/ HideTimerFires
    \/ ShowTimerFires
    \/ ScrollEndTimerFires
    \/ ReducedMotionChange

SpecConfig == Init /\ [][NextConfig]_vars

\* The scrolling page with the menu toggled, the viewport resized and the
\* motion preference changed.
NextTimers ==
    \/ ScrollEvent
    \/ ScrollThrottleReset
    \/ AnimationFrame
    \/ HideTimerFires
    \/ ScrollEndTimerFires
    \/ FocusTimerFires
    \/ ToggleClick
    \/ ResizeEvent
    \/ ResizeThrottleReset
    \/ ReducedMotionChange

\* That page with the browser's timers running: a timeout that stays pending
\* is eventually run (setTimeout, navbar.js:136 and 219).
SpecTimers ==
    /\ Init /\ [][NextTimers]_vars
    /\ WF_vars(HideTimerFires)
    /\ WF_vars(ScrollEndTimerFires)

(***************************************************************************)
(* Properties.                                                             *)
(***************************************************************************)
Mobile == win.innerWidth < DesktopMinWidth
Desktop == win.innerWidth >= DesktopMinWidth

\* C1: while the menu is open the toggle is never auto-hidden, so no scroll
\* evaluation and no hide-timer callback hides it in a state where the menu
\* is open.
C1_NoHideWhileOpen == state.menuOpen => ~dom.autoHidden

\* The menu is open and a scroll evaluation has run, beyond scrollThreshold,
\* at another offset than the one the menu was opened at.
C1_Witness ==
    /\ state.menuOpen /\ elements.toggle /\ Mobile
    /\ state.isScrolling
    /\ state.lastScrollY > scrollThreshold
    /\ state.lastScrollY # state.scrollPosition

\* C2: whenever the menu is open no deferred-hide timer is pending.
C2_NoHideTimerWhileOpen == state.menuOpen => state.hideTimer # "live"

\* The menu was opened in the middle of a scroll beyond scrollThreshold (the
\* scroll-end timer of the last evaluation is still pending), where hides are
\* scheduled, and no hide timer is left.
C2_Witness ==
    /\ state.menuOpen /\ elements.toggle /\ Mobile
    /\ ~state.prefersReducedMotion
    /\ state.hideTimer = "null"
    /\ state.isScrolling /\ state.scrollingTimer = "live"
    /\ state.scrollPosition > scrollThreshold
    /\ state.lastScrollY = state.scrollPosition

\* The scroll evaluations C3 is about: menu closed, mobile width, toggle present.
C3_Down ==
    /\ ~state.menuOpen /\ Mobile /\ elements.toggle
    /\ win.scrollY - state.lastScrollY > scrollDeltaMin
    /\ win.scrollY > scrollThreshold

C3_PendingHide ==
    /\ ~state.menuOpen /\ Mobile /\ elements.toggle
    /\ state.hideTimer = "live" /\ ~dom.autoHidden

\* C3 as claimed: every qualifying downward evaluation schedules a hide (the
\* toggle is not hidden by the evaluation itself), and every evaluation after
\* upward motion, with a hide pending, cancels it and leaves the toggle visible.
C3_AsClaimed ==
    [][AnimationFrame =>
         /\ (C3_Down => state.hideTimer' = "live" /\ dom.autoHidden' = dom.autoHidden)
         /\ (C3_PendingHide /\ win.scrollY < state.lastScrollY
               => state.hideTimer' = "null" /\ ~dom.autoHidden')]_vars

\* C3 amended: a qualifying downward evaluation schedules a hide unless reduced
\* motion is preferred or autoHideDelay is 0; an evaluation whose upward delta
\* exceeds scrollDelta, or whose offset is below topThreshold, cancels a pending
\* hide and leaves the toggle visible.
C3_HideScheduledThenCancelled ==
    [][AnimationFrame =>
         /\ (C3_Down /\ ~state.prefersReducedMotion /\ CONFIG.autoHideDelay > 0
               => state.hideTimer' = "live" /\ dom.autoHidden' = dom.autoHidden)
         /\ (C3_PendingHide
               /\ (state.lastScrollY - win.scrollY > scrollDeltaMin
                   \/ win.scrollY < topThreshold)
               => state.hideTimer' = "null" /\ ~dom.autoHidden')]_vars

\* A hide is pending, the page was scrolled up by more than scrollDelta and the
\* evaluation of that is queued.
C3_Witness ==
    /\ C3_PendingHide
    /\ tasks.raf > 0
    /\ state.lastScrollY - win.scrollY > scrollDeltaMin
    /\ win.scrollY >= topThreshold

\* C4: the saved offset is the scroll offset at the open, it is kept while the
\* menu is open, and every close through toggle, overlay, Escape or orientation
\* change (every step that closes the menu and is no resize) leaves the window
\* at it.
C4_CloseRestoresScroll ==
    [][/\ (~state.menuOpen /\ state.menuOpen'
             => state.scrollPosition' = win.scrollY)
       /\ (state.menuOpen /\ state.menuOpen'
             => state.scrollPosition' = state.scrollPosition)
       /\ (state.menuOpen /\ ~state.menuOpen' /\ win.innerWidth' = win.innerWidth
             => win.scrollY' = state.scrollPosition)]_vars

\* The menu was closed, the window is back at the saved offset, and a scroll
\* evaluation had run at another offset.
C4_Witness ==
    /\ ~state.menuOpen /\ dom.activeElement = "toggle"
    /\ state.scrollPosition > 0
    /\ win.scrollY = state.scrollPosition
    /\ state.lastScrollY # state.scrollPosition
    /\ tasks.raf = 0

\* C5 as claimed: a toggle, overlay, Escape, orientation or resize step on a
\* closed menu restores nothing (the window does not scroll), and every step that
\* takes the menu from open to closed, the desktop reset included, restores the
\* saved offset.
C5_AsClaimed ==
    [][(ToggleClick \/ ToggleSidebarCall \/ OverlayClick \/ EscapeKey
          \/ OrientationChange \/ ResizeEvent) =>
         /\ (~state.menuOpen => win.scrollY' = win.scrollY)
         /\ (state.menuOpen /\ ~state.menuOpen'
               => win.scrollY' = state.scrollPosition)]_vars

\* C6 as claimed: after every resize event that leaves the viewport at desktop
\* width, with the resize listener of init registered, the menu is closed, its
\* classes are removed and the toggle is not auto-hidden.
C6_AsClaimed ==
    [][ResizeEvent /\ listeners.resize /\ win.innerWidth' >= DesktopMinWidth =>
         /\ ~state.menuOpen'
         /\ ~dom.sidebarOpen' /\ ~dom.sidebarVisible'
         /\ ~dom.overlayActive' /\ ~dom.navOpen'
         /\ ~dom.autoHidden']_vars

\* C7 as claimed: while the viewport stays at desktop width the toggle does not
\* gain 'auto-hidden'.
C7_AsClaimed ==
    [][Desktop /\ win.innerWidth' >= DesktopMinWidth
         => (dom.autoHidden' => dom.autoHidden)]_vars

\* C8: aria-expanded, the body's scroll lock, the sidebar's 'open' and the
\* overlay's 'active' are set exactly when the menu is open (each for the
\* element that exists).
C8_DomAgreesWithMenuOpen ==
    /\ elements.toggle => ((dom.ariaExpanded = "true") <=> state.menuOpen)
    /\ dom.navOpen <=> state.menuOpen
    /\ elements.sidebar => (dom.sidebarOpen <=> state.menuOpen)
    /\ elements.overlay => (dom.overlayActive <=> state.menuOpen)

\* The menu is open again after a close (which gave the toggle the focus).
C8_Witness ==
    /\ elements.toggle /\ elements.sidebar /\ elements.overlay
    /\ state.menuOpen
    /\ dom.activeElement = "toggle"
    /\ dom.ariaExpanded = "true" /\ dom.navOpen

\* C9 as claimed: when neither the toggle nor the sidebar exists the menu stays
\* closed, the body never gets 'nav-open' and no callback is ever queued.
C9_AsClaimed ==
    ~(elements.toggle \/ elements.sidebar) =>
        /\ ~state.menuOpen
        /\ ~dom.navOpen
        /\ state.hideTimer = "null" /\ state.scrollingTimer = "null"
        /\ tasks.raf = 0 /\ tasks.showTimers = 0 /\ tasks.focusTimers = 0

\* cleanup() has run on an initialized controller.
CleanedUp == listeners.scroll /\ ~listeners.resize

\* C10 as claimed: cleanup leaves no hide or scroll-end timer pending, and after
\* it a scroll, resize or keydown event changes nothing of the controller.
C10_AsClaimed ==
    [][/\ (CleanupCall
             => state.hideTimer' = "null" /\ state.scrollingTimer' = "null")
       /\ (CleanedUp /\ (ScrollEvent \/ ResizeEvent \/ EscapeKey)
             => UNCHANGED <<state, dom, tasks, inThrottle>>)]_vars

\* C11: scroll evaluations are coalesced through state.ticking: at most one
\* animation-frame callback is queued and the flag is set exactly while it is; a
\* scroll event that reaches onScroll (it passes the throttle, whose flag it
\* sets) while one is queued schedules nothing; a frame (the only step that
\* takes a callback off the queue) runs the one queued evaluation and clears
\* the flag; and a scroll event that reaches onScroll with the flag clear
\* schedules again.
C11_SingleFrameCoalescing ==
    [][/\ tasks.raf' <= 1
       /\ state.ticking' <=> (tasks.raf' = 1)
       /\ (~inThrottle.scroll /\ inThrottle.scroll' /\ state.ticking
             => tasks' = tasks /\ state' = state)
       /\ (tasks.raf' < tasks.raf
             => tasks.raf = 1 /\ tasks.raf' = 0 /\ ~state.ticking')
       /\ (~inThrottle.scroll /\ inThrottle.scroll' /\ ~state.ticking
             => tasks.raf' = 1 /\ state.ticking')]_vars

\* An evaluation has run (its scroll-end timer is pending, the last offset is
\* the one it saw), the flag was cleared, and a later scroll event to another
\* offset has queued the next evaluation.
C11_Witness ==
    /\ tasks.raf = 1 /\ state.ticking
    /\ state.isScrolling /\ state.scrollingTimer = "live"
    /\ win.scrollY # state.lastScrollY

\* A scroll evaluation (the step that takes the frame callback off the queue)
\* whose delta against the last recorded offset is at most scrollDelta in
\* magnitude.
C12_SmallDeltaEvaluation ==
    /\ tasks.raf' < tasks.raf
    /\ win.scrollY - state.lastScrollY <= scrollDeltaMin
    /\ state.lastScrollY - win.scrollY <= scrollDeltaMin

\* C12 as claimed: an evaluation with a delta of at most scrollDelta leaves
\* 'auto-hidden' and the pending hide timer as they were, whatever the offset.
C12_AsClaimed ==
    [][C12_SmallDeltaEvaluation
         => dom.autoHidden' = dom.autoHidden
            /\ state.hideTimer' = state.hideTimer]_vars

\* C12 amended: an evaluation with a delta of at most scrollDelta at an offset
\* of at least topThreshold leaves 'auto-hidden' and the pending hide timer as
\* they were (below topThreshold every evaluation shows the toggle).
C12_SmallDeltaNoTransition ==
    [][C12_SmallDeltaEvaluation /\ win.scrollY >= topThreshold
         => dom.autoHidden' = dom.autoHidden
            /\ state.hideTimer' = state.hideTimer]_vars

\* A hide is pending on a mobile page with the menu closed, the page was
\* scrolled up by no more than scrollDelta and the evaluation of that is queued.
C12_Witness ==
    /\ Mobile /\ elements.toggle /\ ~state.menuOpen
    /\ state.hideTimer = "live"
    /\ tasks.raf = 1
    /\ win.scrollY < state.lastScrollY
    /\ state.lastScrollY - win.scrollY <= scrollDeltaMin
    /\ win.scrollY >= topThreshold

\* C13: after every scroll evaluation with the menu closed at mobile width in
\* which the offset is below topThreshold or the upward delta exceeds
\* scrollDelta, no hide timer is pending; and when the offset is below
\* topThreshold the toggle is not 'auto-hidden' right after the evaluation.
C13_VisibleCancelsHide ==
    [][tasks.raf' < tasks.raf /\ ~state.menuOpen /\ Mobile =>
         /\ (win.scrollY < topThreshold
               \/ state.lastScrollY - win.scrollY > scrollDeltaMin
               => state.hideTimer' = "null")
         /\ (win.scrollY < topThreshold => ~dom.autoHidden')]_vars

\* The toggle is hidden or its hide is pending, the page was scrolled into the
\* top zone and the evaluation of that is queued.
C13_Witness ==
    /\ Mobile /\ elements.toggle /\ ~state.menuOpen
    /\ (dom.autoHidden \/ state.hideTimer = "live")
    /\ tasks.raf = 1
    /\ win.scrollY < topThreshold
    /\ state.lastScrollY > scrollThreshold

\* A scroll evaluation or a menu opening that C14 counts as contrary to a
\* pending hide: the offset is below topThreshold, the upward delta exceeds
\* scrollDelta, or the menu opens.
C14_ContraryStep ==
    \/ ~state.menuOpen /\ state.menuOpen'
    \/ /\ tasks.raf' < tasks.raf
       /\ \/ win.scrollY < topThreshold
          \/ state.lastScrollY - win.scrollY > scrollDeltaMin

\* C14: a pending hide eventually gives way to 'auto-hidden' or to a
\* cancellation; the pending timer goes away without 'auto-hidden' only in a
\* contrary step (so without one the toggle ends hidden); exactly one hide
\* timeout is pending while the handle is live; and a further qualifying
\* downward evaluation leaves one hide pending (or, under reduced motion, hides
\* at once).
C14_ScheduledHideTakesEffect ==
    /\ (state.hideTimer = "live") ~> (dom.autoHidden \/ state.hideTimer = "null")
    /\ [][/\ tasks.hideTimers' = (IF state.hideTimer' = "live" THEN 1 ELSE 0)
          /\ (state.hideTimer = "live" /\ state.hideTimer' = "null" /\ ~dom.autoHidden'
                => C14_ContraryStep)
          /\ (state.hideTimer = "live" /\ tasks.raf' < tasks.raf /\ C3_Down
                => (state.hideTimer' = "live" /\ dom.autoHidden' = dom.autoHidden)
                   \/ (state.hideTimer' = "null" /\ dom.autoHidden'))]_vars

\* A hide is pending and a further qualifying downward scroll is about to be
\* evaluated.
C14_Witness ==
    /\ state.hideTimer = "live" /\ ~dom.autoHidden
    /\ tasks.raf = 1
    /\ C3_Down
    /\ ~state.prefersReducedMotion

\* C15 as claimed: whenever the scroll-end timer fires (the step that uses up
\* its handle) the indicator is cleared: isScrolling is false and the toggle
\* has no 'is-scrolling' afterwards, whatever happened since the evaluation
\* that set the timer.
C15_AsClaimed ==
    [][state.scrollingTimer = "live" /\ state.scrollingTimer' = "null"
         => ~state.isScrolling' /\ ~dom.isScrollingClass']_vars

\* C16 as claimed, on a page that has the toggle, at mobile width: a close through toggle,
\* overlay, Escape or orientation change gives the focus to the toggle; while
\* the menu stays closed the focus stays on the toggle (no step of the model is
\* a user moving the focus); and the focus moves to the first navigation item
\* (the deferred move of openMenu) only while the menu is open.
C16_AsClaimed ==
    [][elements.toggle /\ Mobile =>
         /\ (state.menuOpen /\ ~state.menuOpen' /\ win.innerWidth' = win.innerWidth
               => dom.activeElement' = "toggle")
         /\ (~state.menuOpen /\ ~state.menuOpen' /\ dom.activeElement = "toggle"
               => dom.activeElement' = "toggle")
         /\ (dom.activeElement # "item1" /\ dom.activeElement' = "item1"
               => state.menuOpen)]_vars

\* The elements of focusableItems that exist.
C17_FocusList ==
    {"toggle"} \cup (IF elements.navItems > 0 THEN {"item1", "item2"} ELSE {})

C18_AsClaimed ==
    elements.toggle /\ listeners.resize /\ listeners.keydown =>
        /\ state.menuOpen =>
              /\ ~toggleMenu(World).state.menuOpen
              /\ ~closeMenu(World).state.menuOpen
              /\ ~handleKeydown(World, "Escape", FALSE).world.state.menuOpen
              /\ ~handleOrientationChange(World).state.menuOpen
        /\ ~state.menuOpen /\ Desktop => ~toggleMenu(World).state.menuOpen

\* C19 as claimed: on a page with the sidebar, the sidebar's aria-hidden is
\* "true" exactly when the viewport is mobile width and the menu is closed, and
\* "false" otherwise (menu open, or desktop width).
C19_AsClaimed ==
    elements.sidebar =>
        dom.ariaHidden = (IF Mobile /\ ~state.menuOpen THEN "true" ELSE "false")

\* C20 as claimed: the deferred show is cancelled like the deferred hide, so
\* once a qualifying downward evaluation has scheduled or applied a hide no
\* deferred show (which can only be an earlier one) is left pending to remove
\* 'auto-hidden' after it.
C20_AsClaimed ==
    [][tasks.raf' < tasks.raf /\ C3_Down => tasks.showTimers' = 0]_vars

\* C21 as claimed: whenever the stored theme is not dark the floating button
\* does not carry 'theme-float-btn--hidden'.
C21_AsClaimed == ~getDark(theme) => ~theme.btnHidden

\* C22: the hotspot has 'theme-hotspot--active' exactly when the stored theme
\* is dark and the floating button is hidden.
C22_HotspotActiveIffDarkHidden ==
    theme.hotspotActive <=> (getDark(theme) /\ theme.btnHidden)

\* The auto-hide timeout has hidden the button in the dark theme and the
\* hotspot is active.
C22_Witness ==
    /\ theme.hotspotActive
    /\ getDark(theme)
    /\ theme.btnHidden
    /\ theme.timers = 0
    /\ theme.hideTimer = "null"

\* C23 as claimed: whenever the stored theme is dark the floating button is
\* hidden, or hovered, or has an auto-hide timeout pending.
C23_AsClaimed ==
    getDark(theme) =>
        theme.btnHidden \/ theme.hovered \/ theme.hideTimer = "live"

\* C24 as claimed: on a page with both scripts, every click on which
\* common.js's listener removes the sidebar's 'open' leaves state.menuOpen
\* false and body without 'nav-open'; and the sidebar never lacks 'open' while
\* state.menuOpen is true.
C24_AsClaimed ==
    /\ \A target \in ClickTargets :
          LET w1 == targetClickListeners(World, target)
              w2 == documentClick(w1, target)
          IN  w1.dom.sidebarOpen /\ ~w2.dom.sidebarOpen =>
                  ~w2.state.menuOpen /\ ~w2.dom.navOpen
    /\ elements.sidebar /\ state.menuOpen => dom.sidebarOpen

====
